---- MODULE Spec2Model ----
(***************************************************************************)
(* Model of the timelog time-accounting engine: TimeLogEntry / TimeLogDay  *)
(* (src/src/timelog.rs) and TimeLogger (src/src/timelogger.rs).            *)
(*                                                                         *)
(* Dates are day numbers counted from Monday 2024-01-01 (day 0); times are *)
(* seconds since midnight; durations are seconds.  debug_assert! lines are *)
(* compiled out (release profile) and are modelled as predicates only.     *)
(* disk is the ledger file and its backup; a line of text is kept as its   *)
(* fields, a text as a sequence of lines.                                  *)
(***************************************************************************)
EXTENDS Integers, Sequences, FiniteSets, TLC

VARIABLES date2logday, last, nops, disk

vars == <<date2logday, last, nops, disk>>

(* ------------------------------ bounds --------------------------------- *)
MaxOps == 4
MaxLedgerOps == 1
MaxTime == 3
NumLogDates == 3
MaxBatchSpan == 2
MaxN == 3

(* ---------------------------- input domains ---------------------------- *)
DateList == <<28, 30, 33, 35, 31, 36, 29>>
LogDates == {DateList[i] : i \in 1..NumLogDates}
LogOnlyDates == {DateList[1], DateList[2]}
QueryDates == 27..38
\* wall-clock inputs 04:01:01, 08:02:02, 12:03:03, ...
TimeStep == 4 * 3600 + 61
Times == {TimeStep * i : i \in 1..MaxTime}
\* a wall-clock input carries a sub-second part; every other one is non-zero
InputTimes == {[secs |-> TimeStep * i, nano |-> 500 * (i % 2)] : i \in 1..MaxTime}
WithTimes == {16 * 3600}

(* ------------------------------ calendar ------------------------------- *)
\* chrono::Weekday, numbered from Monday
Mon == 0
Sat == 5
Sun == 6

weekday(date) == date % 7

\* first day number of January..April 2024 (2024 is a leap year)
MonthStart == <<0, 31, 60, 91>>

month0(date) == CHOOSE m \in 0..2 : MonthStart[m + 1] <= date /\ date < MonthStart[m + 2]

from_ymd(m0, day) == MonthStart[m0 + 1] + day - 1

MONTH_2_NDAYS == <<31, 28, 31, 30, 31, 30, 31, 31, 30, 31, 30, 31>>

is_weekday(date) == weekday(date) # Sat /\ weekday(date) # Sun

(* ------------------------------- entries ------------------------------- *)
UNDEF == -1

Work == 0
Sickness == 1
Vacation == 2
ParentalLeave == 3
Holiday == 4
EntryTypes == {Work, Sickness, Vacation, ParentalLeave, Holiday}
BatchTypes == {Sickness, Vacation}

TimeLogEntry_start(date, entry_type, time) ==
    [start |-> time, end |-> UNDEF, entry_type |-> entry_type, date |-> date]

TimeLogEntry_end(date, entry_type, time) ==
    [start |-> UNDEF, end |-> time, entry_type |-> entry_type, date |-> date]

ord(a, b) == IF a < b THEN "Less" ELSE IF a > b THEN "Greater" ELSE "Equal"

\* impl Ord for TimeLogEntry: the match arms in source order
cmp(self, other) ==
    IF self.end # UNDEF /\ other.start # UNDEF THEN ord(self.end, other.start)
    ELSE IF self.start # UNDEF /\ other.end # UNDEF THEN ord(self.start, other.end)
    ELSE IF self.start # UNDEF /\ other.start # UNDEF THEN ord(self.start, other.start)
    ELSE IF self.end # UNDEF /\ other.end # UNDEF THEN ord(self.end, other.end)
    ELSE ord(self.entry_type, other.entry_type)

is_less(a, b) == cmp(a, b) = "Less"

(* -------------------------- entries.sort() ----------------------------- *)
\* Vec::sort on a short vector is an insertion sort.  Which one depends on
\* the toolchain: older standard libraries insert each element into the
\* sorted tail (insert_head, right to left), newer ones insert each element
\* into the sorted prefix (insertion_sort_shift_left).  The comparator is
\* not a total order, so the two can disagree; both outcomes are kept.
RECURSIVE insert_tail(_, _)
insert_tail(s, x) ==
    IF s = <<>> \/ ~is_less(x, s[Len(s)]) THEN Append(s, x)
    ELSE Append(insert_tail(SubSeq(s, 1, Len(s) - 1), x), s[Len(s)])

RECURSIVE sort_shift_left(_)
sort_shift_left(v) ==
    IF v = <<>> THEN <<>>
    ELSE insert_tail(sort_shift_left(SubSeq(v, 1, Len(v) - 1)), v[Len(v)])

RECURSIVE insert_head(_, _)
insert_head(x, s) ==
    IF s = <<>> \/ ~is_less(s[1], x) THEN <<x>> \o s
    ELSE <<s[1]>> \o insert_head(x, Tail(s))

RECURSIVE sort_insert_head(_)
sort_insert_head(v) ==
    IF v = <<>> THEN <<>>
    ELSE insert_head(Head(v), sort_insert_head(Tail(v)))

sort(v) == {sort_shift_left(v), sort_insert_head(v)}

(* ---------------------- TimeLogDay::set_start / set_end ---------------- *)
\* index of the first entry of entry_type whose start (end) is unset, 0 if none
last_without_start(entries, entry_type) ==
    LET S == {i \in 1..Len(entries) :
                 entries[i].start = UNDEF /\ entries[i].entry_type = entry_type}
    IN IF S = {} THEN 0 ELSE CHOOSE i \in S : \A j \in S : i >= j

\* the search of set_start without the test on the entry type
first_without_start_any_type(entries, entry_type) ==
    LET S == {i \in 1..Len(entries) : entries[i].start = UNDEF}
    IN IF S = {} THEN 0 ELSE CHOOSE i \in S : \A j \in S : i <= j

first_without_start(entries, entry_type) ==
    LET S == {i \in 1..Len(entries) :
                 entries[i].start = UNDEF /\ entries[i].entry_type = entry_type}
    IN IF S = {} THEN 0 ELSE CHOOSE i \in S : \A j \in S : i <= j

first_without_end(entries, entry_type) ==
    LET S == {i \in 1..Len(entries) :
                 entries[i].end = UNDEF /\ entries[i].entry_type = entry_type}
    IN IF S = {} THEN 0 ELSE CHOOSE i \in S : \A j \in S : i <= j

\* the entries before the trailing sort
set_start_unsorted(entries, date, time, entry_type) ==
    LET i == first_without_start(entries, entry_type)
    IN IF i # 0 THEN [entries EXCEPT ![i].start = time]
       ELSE Append(entries, TimeLogEntry_start(date, entry_type, time))

set_end_unsorted(entries, date, time, entry_type) ==
    LET i == first_without_end(entries, entry_type)
    IN IF i # 0 THEN [entries EXCEPT ![i].end = time]
       ELSE Append(entries, TimeLogEntry_end(date, entry_type, time))

\* gen_set!: the possible entry vectors after the call (one per sort outcome)
set_start(entries, date, time, entry_type) ==
    sort(set_start_unsorted(entries, date, time, entry_type))

set_end(entries, date, time, entry_type) ==
    sort(set_end_unsorted(entries, date, time, entry_type))

\* the entry gen_set! hands back: the one it filled or appended
set_start_entry(entries, date, time, entry_type) ==
    LET i == first_without_start(entries, entry_type)
    IN IF i # 0 THEN [entries[i] EXCEPT !.start = time]
       ELSE TimeLogEntry_start(date, entry_type, time)

set_end_entry(entries, date, time, entry_type) ==
    LET i == first_without_end(entries, entry_type)
    IN IF i # 0 THEN [entries[i] EXCEPT !.end = time]
       ELSE TimeLogEntry_end(date, entry_type, time)

\* validate_ordering: TRUE when none of its assertions fails
validate_ordering(entries) ==
    \A i \in 1..Len(entries) : \A j \in (i + 1)..Len(entries) :
        LET s_i == entries[i].start
            s_j == entries[j].start
            e_i == entries[i].end
            e_j == entries[j].end
        IN /\ (s_i # UNDEF /\ s_j # UNDEF) => s_i < s_j
           /\ (e_i # UNDEF /\ e_j # UNDEF) => e_i < e_j
           /\ (e_i # UNDEF /\ s_j # UNDEF) => e_i <= s_j

(* ------------------------------ TimeLogger ----------------------------- *)
\* from_hms that keeps the hour and the minute only
from_hm(time) ==
    LET hour == time.secs \div 3600
        minute == (time.secs % 3600) \div 60
    IN hour * 3600 + minute * 60

\* NaiveTime::from_hms(time.hour(), time.minute(), time.second())
from_hms(time) ==
    LET hour == time.secs \div 3600
        minute == (time.secs % 3600) \div 60
        second == time.secs % 60
    IN hour * 3600 + minute * 60 + second

\* date2logday.entry(date): Vacant inserts TimeLogDay::empty(date)
entries_of(map, date) == IF date \in DOMAIN map THEN map[date] ELSE <<>>

with_day(map, date, entries) ==
    [d \in DOMAIN map \cup {date} |-> IF d = date THEN entries ELSE map[d]]

NoEntry == [start |-> UNDEF, end |-> UNDEF, entry_type |-> Work, date |-> 0]

\* the last call: its arguments, its outcome, the entry or number returned
NoOp ==
    [op |-> "none", date |-> 0, time |-> [secs |-> 0, nano |-> 0],
     vacant |-> FALSE, outcome |-> "ok", ret |-> NoEntry, val |-> 0]

log_start(date, time) ==
    /\ last.outcome # "panic"
    /\ \E entries \in set_start(entries_of(date2logday, date), date, from_hms(time), Work) :
          date2logday' = with_day(date2logday, date, entries)
    /\ last' = [op |-> "log_start", date |-> date, time |-> time,
                vacant |-> date \notin DOMAIN date2logday, outcome |-> "ok",
                ret |-> set_start_entry(entries_of(date2logday, date), date,
                                        from_hms(time), Work),
                val |-> 0]
    /\ nops' = nops + 1
    /\ UNCHANGED disk

log_end(date, time) ==
    /\ last.outcome # "panic"
    /\ \E entries \in set_end(entries_of(date2logday, date), date, from_hms(time), Work) :
          date2logday' = with_day(date2logday, date, entries)
    /\ last' = [op |-> "log_end", date |-> date, time |-> time,
                vacant |-> date \notin DOMAIN date2logday, outcome |-> "ok",
                ret |-> set_end_entry(entries_of(date2logday, date), date,
                                      from_hms(time), Work),
                val |-> 0]
    /\ nops' = nops + 1
    /\ UNCHANGED disk

LogStart ==
    /\ nops < MaxOps
    /\ \E date \in LogOnlyDates, time \in InputTimes : log_start(date, time)

LogEnd ==
    /\ nops < MaxOps
    /\ \E date \in LogOnlyDates, time \in InputTimes : log_end(date, time)

(* -------------------------- TimeLogDay queries ------------------------- *)
Hours(n) == n * 3600

Ok(v) == [kind |-> "ok", val |-> v]
InvalidInputError == [kind |-> "err", val |-> 0]
Panic == [kind |-> "panic", val |-> 0]

loggable_time(date, etype) == IF is_weekday(date) THEN Hours(8) ELSE Hours(0)

RECURSIVE logged_time(_, _)
logged_time(entries, etype) ==
    IF entries = <<>> THEN 0
    ELSE LET e == Head(entries)
         IN (IF e.start # UNDEF /\ e.end # UNDEF /\ e.entry_type = etype
             THEN e.end - e.start ELSE 0) + logged_time(Tail(entries), etype)

\* time_logged_with that takes the first open entry of any type
time_logged_with_any_type(entries, end, etype) ==
    LET dur == logged_time(entries, etype)
        open == {i \in 1..Len(entries) :
                    /\ entries[i].start # UNDEF
                    /\ entries[i].end = UNDEF}
    IN IF Len(entries) = 0 THEN InvalidInputError
       ELSE IF \A i \in 1..Len(entries) : entries[i].start = UNDEF THEN InvalidInputError
       ELSE IF open = {} THEN Ok(dur)
       ELSE LET i == CHOOSE i \in open : \A j \in open : i <= j
            IN Ok(dur + (end - entries[i].start))

time_logged_with(entries, end, etype) ==
    LET dur == logged_time(entries, etype)
        open == {i \in 1..Len(entries) :
                    /\ entries[i].start # UNDEF
                    /\ entries[i].end = UNDEF
                    /\ entries[i].entry_type = etype}
    IN IF Len(entries) = 0 THEN InvalidInputError
       ELSE IF \A i \in 1..Len(entries) : entries[i].start = UNDEF THEN InvalidInputError
       ELSE IF open = {} THEN Ok(dur)
       ELSE LET i == CHOOSE i \in open : \A j \in open : i <= j
            IN Ok(dur + (end - entries[i].start))

\* TimeLogDay::full(date, ty): one entry of ty with neither start nor end
TimeLogDay_full(date, ty) ==
    <<[start |-> UNDEF, end |-> UNDEF, entry_type |-> ty, date |-> date]>>

\* TimeLogEntryType::iterator(): every entry type
TimeLogEntryType_iterator == <<Work, Sickness, Vacation, ParentalLeave, Holiday>>

(* ------------------------ period boundary helpers ---------------------- *)
RECURSIVE get_monday_in_week_of(_)
get_monday_in_week_of(date) ==
    IF weekday(date) # Mon THEN get_monday_in_week_of(date - 1) ELSE date

\* get_sunday_in_week_of that stops at the Saturday
RECURSIVE get_saturday_in_week_of(_)
get_saturday_in_week_of(date) ==
    IF weekday(date) # Sat THEN get_saturday_in_week_of(date + 1) ELSE date

RECURSIVE get_sunday_in_week_of(_)
get_sunday_in_week_of(date) ==
    IF weekday(date) # Sun THEN get_sunday_in_week_of(date + 1) ELSE date

get_first_day_in_month_of(date) == from_ymd(month0(date), 1)

\* get_last_day_in_month_of with the calendar's own month length
get_last_day_in_month_of_leap(date) ==
    from_ymd(month0(date), MonthStart[month0(date) + 2] - MonthStart[month0(date) + 1])

get_last_day_in_month_of(date) == from_ymd(month0(date), MONTH_2_NDAYS[month0(date) + 1])

(* -------------------------- range aggregation -------------------------- *)
\* compute_logged_time_between that skips Saturdays and Sundays
RECURSIVE compute_logged_weekdays_only(_, _, _, _)
compute_logged_weekdays_only(map, day1, day2, etype) ==
    IF day1 > day2 THEN 0
    ELSE (IF is_weekday(day1) /\ day1 \in DOMAIN map
          THEN logged_time(map[day1], etype) ELSE Hours(0))
         + compute_logged_weekdays_only(map, day1 + 1, day2, etype)

\* gen_time_between!(compute_logged_time_between, logged_time, 0, true)
RECURSIVE compute_logged_time_between(_, _, _, _)
compute_logged_time_between(map, day1, day2, etype) ==
    IF day1 > day2 THEN 0
    ELSE (IF day1 \in DOMAIN map THEN logged_time(map[day1], etype) ELSE Hours(0))
         + compute_logged_time_between(map, day1 + 1, day2, etype)

\* compute_loggable_time_between with a default of 0 hours for unrecorded days
RECURSIVE compute_loggable_default_zero(_, _, _, _)
compute_loggable_default_zero(map, day1, day2, etype) ==
    IF day1 > day2 THEN 0
    ELSE (IF is_weekday(day1)
          THEN (IF day1 \in DOMAIN map THEN loggable_time(day1, etype) ELSE Hours(0))
          ELSE 0)
         + compute_loggable_default_zero(map, day1 + 1, day2, etype)

\* gen_time_between!(compute_loggable_time_between, loggable_time, 8, false)
RECURSIVE compute_loggable_time_between(_, _, _, _)
compute_loggable_time_between(map, day1, day2, etype) ==
    IF day1 > day2 THEN 0
    ELSE (IF is_weekday(day1)
          THEN (IF day1 \in DOMAIN map THEN loggable_time(day1, etype) ELSE Hours(8))
          ELSE 0)
         + compute_loggable_time_between(map, day1 + 1, day2, etype)

compute_loggable_time_in_month_of(map, date, etype) ==
    compute_loggable_time_between(map, get_first_day_in_month_of(date),
                                  get_last_day_in_month_of(date), etype)

compute_loggable_time_in_week_of(map, date, etype) ==
    compute_loggable_time_between(map, get_monday_in_week_of(date),
                                  get_sunday_in_week_of(date), etype)

\* TimeLogEntryType::iterator().map(compute_logged_time_between).fold(0, +)
RECURSIVE logged_all_types(_, _, _, _)
logged_all_types(map, start_date, end_date, types) ==
    IF types = <<>> THEN Hours(0)
    ELSE compute_logged_time_between(map, start_date, end_date, Head(types))
         + logged_all_types(map, start_date, end_date, Tail(types))

\* the while loop of gen_time_logged_in_timeperiod_with!
RECURSIVE last_date_with_entries(_, _, _)
last_date_with_entries(map, cur, end_date) ==
    IF (cur + 1) \in DOMAIN map /\ cur # end_date
    THEN last_date_with_entries(map, cur + 1, end_date)
    ELSE cur

\* with = UNDEF stands for None
time_logged_in_timeperiod_with(map, start_date, end_date, with) ==
    LET logged == logged_all_types(map, start_date, end_date, TimeLogEntryType_iterator)
        last_date == last_date_with_entries(map, start_date, end_date)
    IN IF with = UNDEF THEN Ok(logged)
       ELSE IF last_date \notin DOMAIN map THEN Panic
       ELSE LET last_tld_logged == logged_time(map[last_date], Work)
                last_tld_logged_with == time_logged_with(map[last_date], with, Work)
            IN IF last_tld_logged_with.kind = "err" THEN InvalidInputError
               ELSE Ok(logged - last_tld_logged + last_tld_logged_with.val)

time_logged_in_week_of_with(map, date, with) ==
    time_logged_in_timeperiod_with(map, get_monday_in_week_of(date),
                                   get_sunday_in_week_of(date), with)

time_logged_in_month_of_with(map, date, with) ==
    time_logged_in_timeperiod_with(map, get_first_day_in_month_of(date),
                                   get_last_day_in_month_of(date), with)

(* ------------------------------ flex time ------------------------------ *)
RECURSIVE back_to_sunday(_)
back_to_sunday(date) ==
    IF weekday(date) # Sun THEN back_to_sunday(date - 1) ELSE date

\* flextime_as_of without the step back from a Sunday reference date
flextime_no_sunday_case(map, date) ==
    IF DOMAIN map = {} THEN Hours(0)
    ELSE LET keys0 == CHOOSE k \in DOMAIN map : \A j \in DOMAIN map : k <= j
             prev_week_sunday == back_to_sunday(date)
         IN IF prev_week_sunday <= keys0 THEN Hours(0)
            ELSE compute_loggable_time_between(map, keys0, prev_week_sunday, Work)
                 - logged_all_types(map, keys0, prev_week_sunday,
                                    TimeLogEntryType_iterator)

\* flextime_as_of with the operands of the subtraction swapped
flextime_logged_minus_loggable(map, date) ==
    IF DOMAIN map = {} THEN Hours(0)
    ELSE LET keys0 == CHOOSE k \in DOMAIN map : \A j \in DOMAIN map : k <= j
             prev_week_sunday ==
                 back_to_sunday(IF weekday(date) = Sun THEN date - 1 ELSE date)
         IN IF prev_week_sunday <= keys0 THEN Hours(0)
            ELSE logged_all_types(map, keys0, prev_week_sunday,
                                  TimeLogEntryType_iterator)
                 - compute_loggable_time_between(map, keys0, prev_week_sunday, Work)

\* flextime_as_of that counts the records up to the reference date itself
flextime_up_to_date(map, date) ==
    IF DOMAIN map = {} THEN Hours(0)
    ELSE LET keys0 == CHOOSE k \in DOMAIN map : \A j \in DOMAIN map : k <= j
         IN IF date <= keys0 THEN Hours(0)
            ELSE compute_loggable_time_between(map, keys0, date, Work)
                 - logged_all_types(map, keys0, date, TimeLogEntryType_iterator)

flextime_as_of(map, date) ==
    IF DOMAIN map = {} THEN Hours(0)
    ELSE LET keys0 == CHOOSE k \in DOMAIN map : \A j \in DOMAIN map : k <= j
             prev_week_sunday ==
                 back_to_sunday(IF weekday(date) = Sun THEN date - 1 ELSE date)
         IN IF prev_week_sunday <= keys0 THEN Hours(0)
            ELSE compute_loggable_time_between(map, keys0, prev_week_sunday, Work)
                 - logged_all_types(map, keys0, prev_week_sunday,
                                    TimeLogEntryType_iterator)

\* time left with the flex time subtracted instead of added
time_left_minus_flex(workable_time, logged_time_res, flex_time) ==
    IF logged_time_res.kind # "ok"
    THEN [kind |-> logged_time_res.kind, val |-> 0, flex |-> 0]
    ELSE [kind |-> "ok", val |-> workable_time - logged_time_res.val - flex_time,
          flex |-> flex_time]

\* gen_time_left_in_timeperiod_with!: (left, flex) or the logged-time failure
time_left_in_timeperiod_with(workable_time, logged_time_res, flex_time) ==
    IF logged_time_res.kind # "ok"
    THEN [kind |-> logged_time_res.kind, val |-> 0, flex |-> 0]
    ELSE [kind |-> "ok", val |-> workable_time - logged_time_res.val + flex_time,
          flex |-> flex_time]

time_left_in_week_of_with(map, date, with) ==
    time_left_in_timeperiod_with(compute_loggable_time_in_week_of(map, date, Work),
                                 time_logged_in_week_of_with(map, date, with),
                                 flextime_as_of(map, date))

time_left_in_month_of_with(map, date, with) ==
    time_left_in_timeperiod_with(compute_loggable_time_in_month_of(map, date, Work),
                                 time_logged_in_month_of_with(map, date, with),
                                 flextime_as_of(map, date))

(* ----------------------------- ledger text ---------------------------- *)
\* The line "2024/01/29 Mon | Work 07:31:00 UNDEF" is kept as its fields:
\* year, month, day of month, weekday abbreviation, type name and two time
\* fields.  A text is a sequence of lines, each with a flag telling whether
\* a newline follows it.
Year == 2024
WeekdayNames == <<"Mon", "Tue", "Wed", "Thu", "Fri", "Sat", "Sun">>
EntryTypeNames == <<"Work", "Sickness", "Vacation", "ParentalLeave", "Holiday">>

UNDEF_STR == [undef |-> TRUE, h |-> 0, m |-> 0, s |-> 0]
HMS(h, m, s) == [undef |-> FALSE, h |-> h, m |-> m, s |-> s]

Line(m, d, a, ty, start, end) ==
    [y |-> Year, m |-> m, d |-> d, a |-> a, ty |-> ty, start |-> start, end |-> end]

EmptyLine == [y |-> 0, m |-> 0, d |-> 0, a |-> "", ty |-> "",
              start |-> UNDEF_STR, end |-> UNDEF_STR]

Entry(date, ty, start, end) ==
    [start |-> start, end |-> end, entry_type |-> ty, date |-> date]

\* chrono's calendar for 2024: February has 29 days
days_in_month(m) == IF m = 2 THEN 29 ELSE MONTH_2_NDAYS[m]

\* NaiveDate::parse_from_str(s, "%Y/%m/%d %a"): the date must exist and the
\* weekday must be the date's own; UNDEF is the parse error
NaiveDate_parse_from_str(line) ==
    IF /\ line.y = Year
       /\ line.m \in 1..3
       /\ line.d \in 1..days_in_month(line.m)
       /\ line.a = WeekdayNames[weekday(from_ymd(line.m - 1, line.d)) + 1]
    THEN from_ymd(line.m - 1, line.d)
    ELSE UNDEF

\* date.format("%Y/%m/%d %a")
NaiveDate_format(date) ==
    [y |-> Year, m |-> month0(date) + 1,
     d |-> date - MonthStart[month0(date) + 1] + 1,
     a |-> WeekdayNames[weekday(date) + 1]]

\* impl FromStr for TimeLogEntryType; UNDEF is the parse error
TimeLogEntryType_from_str(name) ==
    IF \E i \in 1..Len(EntryTypeNames) : EntryTypeNames[i] = name
    THEN (CHOOSE i \in 1..Len(EntryTypeNames) : EntryTypeNames[i] = name) - 1
    ELSE UNDEF

\* impl Display for TimeLogEntryType
TimeLogEntryType_to_string(ty) == EntryTypeNames[ty + 1]

\* try_get_naivetime: "UNDEF" and anything NaiveTime::from_str rejects is None
try_get_naivetime(field) ==
    IF field.undef THEN UNDEF
    ELSE IF field.h \in 0..23 /\ field.m \in 0..59 /\ field.s \in 0..59
         THEN field.h * 3600 + field.m * 60 + field.s
         ELSE UNDEF

opt_naivetime_to_str(ont) ==
    IF ont = UNDEF THEN UNDEF_STR
    ELSE HMS(ont \div 3600, (ont % 3600) \div 60, ont % 60)

\* impl FromStr for TimeLogEntry
TimeLogEntry_from_str(line) ==
    LET date == NaiveDate_parse_from_str(line)
        entry_type == TimeLogEntryType_from_str(line.ty)
    IN IF date = UNDEF \/ entry_type = UNDEF
       THEN [kind |-> "err", tle |-> NoEntry]
       ELSE [kind |-> "ok",
             tle |-> Entry(date, entry_type, try_get_naivetime(line.start),
                           try_get_naivetime(line.end))]

\* Display that writes the end before the start
TimeLogEntry_to_string_end_first(e) ==
    LET date == NaiveDate_format(e.date)
    IN [y |-> date.y, m |-> date.m, d |-> date.d, a |-> date.a,
        ty |-> TimeLogEntryType_to_string(e.entry_type),
        start |-> opt_naivetime_to_str(e.end),
        end |-> opt_naivetime_to_str(e.start)]

\* impl Display for TimeLogEntry
TimeLogEntry_to_string(e) ==
    LET date == NaiveDate_format(e.date)
    IN [y |-> date.y, m |-> date.m, d |-> date.d, a |-> date.a,
        ty |-> TimeLogEntryType_to_string(e.entry_type),
        start |-> opt_naivetime_to_str(e.start),
        end |-> opt_naivetime_to_str(e.end)]

\* impl Display for TimeLogDay: a newline after every entry but the last
TimeLogDay_to_string(entries) ==
    [i \in 1..Len(entries) |->
        [line |-> TimeLogEntry_to_string(entries[i]), nl |-> i # Len(entries)]]

\* s.push('\n')
push_newline(s) ==
    IF s # <<>> /\ ~s[Len(s)].nl THEN [s EXCEPT ![Len(s)].nl = TRUE]
    ELSE Append(s, [line |-> EmptyLine, nl |-> TRUE])

\* s.lines()
str_lines(s) == [i \in 1..Len(s) |-> s[i].line]

\* dates.sort()
RECURSIVE sorted_dates(_)
sorted_dates(dates) ==
    IF dates = {} THEN <<>>
    ELSE LET d == CHOOSE d \in dates : \A e \in dates : d <= e
         IN <<d>> \o sorted_dates(dates \ {d})

RECURSIVE write_days(_, _, _)
write_days(s, map, dates) ==
    IF dates = <<>> THEN s
    ELSE write_days(push_newline(s \o TimeLogDay_to_string(map[Head(dates)])),
                    map, Tail(dates))

\* write_entries without dates.sort(): the keys come in another order
write_entries_unsorted(map) ==
    LET dates == sorted_dates(DOMAIN map)
    IN write_days(<<>>, map, [i \in 1..Len(dates) |-> dates[Len(dates) + 1 - i]])

write_entries(map) == write_days(<<>>, map, sorted_dates(DOMAIN map))

(* ------------------------- read_entries / batch_add -------------------- *)
\* read_entries: every line is parsed and appended to the Day of its date;
\* the first line that does not parse ends the read with its error
RECURSIVE read_entries(_, _)
read_entries(map, lines) ==
    IF lines = <<>> THEN [kind |-> "ok", map |-> map]
    ELSE LET res == TimeLogEntry_from_str(Head(lines))
             tle == res.tle
         IN IF res.kind # "ok" THEN [kind |-> "err", map |-> map]
            ELSE read_entries(with_day(map, tle.date,
                                       Append(entries_of(map, tle.date), tle)),
                              Tail(lines))

\* from_file on an existing file: the ledger read from its contents
from_file(contents) == read_entries(<<>>, str_lines(contents))

\* batch_add whose loop runs while cur <= to
RECURSIVE batch_add_from_inclusive(_, _, _, _, _)
batch_add_from_inclusive(map, ty, cur, to, weekday_only) ==
    IF ~(cur <= to) THEN [map |-> map, outcome |-> "ok"]
    ELSE IF weekday_only /\ ~is_weekday(cur)
         THEN batch_add_from_inclusive(map, ty, cur + 1, to, weekday_only)
    ELSE IF cur \in DOMAIN map THEN [map |-> map, outcome |-> "err"]
    ELSE batch_add_from_inclusive(with_day(map, cur, TimeLogDay_full(cur, ty)),
                                  ty, cur + 1, to, weekday_only)

\* batch_add that steps over a date that has a Day instead of failing
RECURSIVE batch_add_from_skip_occupied(_, _, _, _, _)
batch_add_from_skip_occupied(map, ty, cur, to, weekday_only) ==
    IF ~(cur < to) THEN [map |-> map, outcome |-> "ok"]
    ELSE IF (weekday_only /\ ~is_weekday(cur)) \/ cur \in DOMAIN map
         THEN batch_add_from_skip_occupied(map, ty, cur + 1, to, weekday_only)
    ELSE batch_add_from_skip_occupied(with_day(map, cur, TimeLogDay_full(cur, ty)),
                                      ty, cur + 1, to, weekday_only)

\* the loop of batch_add from `cur`: the map it leaves and how it ends
RECURSIVE batch_add_from(_, _, _, _, _)
batch_add_from(map, ty, cur, to, weekday_only) ==
    IF ~(cur < to) THEN [map |-> map, outcome |-> "ok"]
    ELSE IF weekday_only /\ ~is_weekday(cur)
         THEN batch_add_from(map, ty, cur + 1, to, weekday_only)
    ELSE IF cur \in DOMAIN map THEN [map |-> map, outcome |-> "err"]
    ELSE batch_add_from(with_day(map, cur, TimeLogDay_full(cur, ty)),
                        ty, cur + 1, to, weekday_only)

batch_add(ty, from, to, weekday_only) ==
    /\ last.outcome # "panic"
    /\ LET res == IF ~(from < to) THEN [map |-> date2logday, outcome |-> "panic"]
                  ELSE batch_add_from(date2logday, ty, from, to, weekday_only)
       IN /\ date2logday' = res.map
          /\ last' = [op |-> "batch_add", date |-> from, time |-> [secs |-> 0, nano |-> 0],
                      vacant |-> from \notin DOMAIN date2logday, outcome |-> res.outcome,
                      ret |-> NoEntry, val |-> 0]
    /\ nops' = nops + 1
    /\ UNCHANGED disk

(* --------------------- specification: logging only --------------------- *)
\* the ledger file with no backup beside it
NewDisk(contents) == [primary |-> contents, bkp_exists |-> FALSE, bkp |-> <<>>]

InitEmpty ==
    /\ date2logday = <<>>
    /\ last = NoOp
    /\ nops = 0
    /\ disk = NewDisk(<<>>)

NextLog == LogStart \/ LogEnd

SpecLog == InitEmpty /\ [][NextLog]_vars

(* --------------------------- verify_entries ---------------------------- *)
\* TimeLogDay::has_unfinished_entries(): an entry with exactly one of start
\* and end set, or a Work entry missing either bound
has_unfinished_entries(entries) ==
    \E i \in 1..Len(entries) :
        \/ (entries[i].start = UNDEF) # (entries[i].end = UNDEF)
        \/ /\ entries[i].entry_type = Work
           /\ (entries[i].start = UNDEF \/ entries[i].end = UNDEF)

\* gen_verify_entries!: the loop while cur != end_date; <<>> is None
RECURSIVE verify_entries(_, _, _, _)
verify_entries(map, cur, end_date, bad_entries) ==
    IF cur = end_date THEN bad_entries
    ELSE verify_entries(map, cur + 1, end_date,
                        IF cur \in DOMAIN map /\ has_unfinished_entries(map[cur])
                        THEN Append(bad_entries, cur) ELSE bad_entries)

verify_entries_in_month_of(map, date) ==
    verify_entries(map, get_first_day_in_month_of(date),
                   get_last_day_in_month_of(date), <<>>)

verify_entries_in_week_of(map, date) ==
    verify_entries(map, get_monday_in_week_of(date),
                   get_sunday_in_week_of(date), <<>>)

(* ------------------ specification: a loaded ledger -------------------- *)
\* a text whose lines all end in a newline
Terminated(lines) == [i \in 1..Len(lines) |-> [line |-> lines[i], nl |-> TRUE]]

\* ledger files the program is started on: a new file, a ledger begun on a
\* Saturday, one with a full-day absence and two entries on a day, and two
\* whose days are not contiguous and hold open entries and a timed absence
LedgerFiles ==
    { <<>>,
      Terminated(<< Line(2, 3, "Sat", "Work", HMS(4, 0, 0), HMS(8, 0, 0)) >>),
      Terminated(<< Line(1, 29, "Mon", "Vacation", UNDEF_STR, UNDEF_STR),
                    Line(1, 30, "Tue", "Work", HMS(4, 0, 0), HMS(12, 0, 0)),
                    Line(1, 30, "Tue", "Work", HMS(12, 0, 0), HMS(16, 0, 0)) >>),
      Terminated(<< Line(1, 29, "Mon", "Work", HMS(4, 0, 0), HMS(8, 0, 0)),
                    Line(1, 30, "Tue", "Sickness", HMS(8, 0, 0), HMS(12, 0, 0)),
                    Line(1, 31, "Wed", "Work", HMS(4, 0, 0), UNDEF_STR),
                    Line(2, 3, "Sat", "Work", HMS(4, 0, 0), HMS(8, 0, 0)) >>),
      Terminated(<< Line(1, 30, "Tue", "Work", HMS(4, 0, 0), HMS(16, 0, 0)),
                    Line(2, 1, "Thu", "Work", HMS(4, 0, 0), HMS(8, 0, 0)),
                    Line(2, 3, "Sat", "Work", HMS(8, 0, 0), UNDEF_STR),
                    Line(2, 5, "Mon", "Work", HMS(4, 0, 0), UNDEF_STR) >>) }

Init ==
    /\ \E file \in LedgerFiles :
          /\ from_file(file).kind = "ok"
          /\ date2logday = from_file(file).map
          /\ disk = NewDisk(file)
    /\ last = NoOp
    /\ nops = 0

LedgerLogStart ==
    /\ nops < MaxLedgerOps
    /\ \E date \in LogDates, time \in InputTimes : log_start(date, time)

LedgerLogEnd ==
    /\ nops < MaxLedgerOps
    /\ \E date \in LogDates, time \in InputTimes : log_end(date, time)

BatchAdd ==
    /\ nops < MaxLedgerOps
    /\ \E ty \in BatchTypes, from \in LogDates, span \in 0..MaxBatchSpan,
          weekday_only \in BOOLEAN :
          batch_add(ty, from, from + span, weekday_only)

Next == LedgerLogStart \/ LedgerLogEnd \/ BatchAdd

Spec == Init /\ [][Next]_vars

(* --------------- specification: ledger, queries and the disk ----------- *)
\* time_logged_at_date_with that takes an unrecorded date for an empty day
time_logged_at_date_default_zero(map, date, with) ==
    IF date \notin DOMAIN map THEN Ok(0)
    ELSE LET res == time_logged_with(map[date], with, Work)
         IN IF with = UNDEF /\ res.kind = "ok"
            THEN Ok(logged_time(map[date], Work))
            ELSE res

\* time_logged_at_date_with; `with` = None adds no provisional time
time_logged_at_date_with(map, date, with) ==
    IF date \notin DOMAIN map THEN InvalidInputError
    ELSE LET res == time_logged_with(map[date], with, Work)
         IN IF with = UNDEF /\ res.kind = "ok"
            THEN Ok(logged_time(map[date], Work))
            ELSE res

\* save; write_fails tells whether file.write_all returns an error
save(write_fails) ==
    LET s == write_entries(date2logday)
        \* File::create(fp) truncates the ledger file
        created == [disk EXCEPT !.primary = <<>>]
        \* fs::copy(fp, bkp_fp)
        copied == [created EXCEPT !.bkp_exists = TRUE, !.bkp = created.primary]
    IN /\ last.outcome # "panic"
       /\ disk' = IF write_fails
                  THEN \* fs::copy(bkp_fp, fp)
                       [copied EXCEPT !.primary = copied.bkp]
                  ELSE \* the write, then fs::remove_file(bkp_fp)
                       [copied EXCEPT !.primary = s, !.bkp_exists = FALSE,
                                      !.bkp = <<>>]
       /\ last' = [op |-> "save", date |-> 0, time |-> [secs |-> 0, nano |-> 0],
                   vacant |-> FALSE,
                   outcome |-> IF write_fails THEN "io_err" ELSE "ok",
                   ret |-> NoEntry, val |-> 0]
       /\ UNCHANGED <<date2logday, nops>>

\* two more files: one whose last line has no newline after it, one whose
\* lines are not in date order
DiskFiles ==
    LedgerFiles \cup
    { << [line |-> Line(1, 29, "Mon", "Work", HMS(4, 0, 0), HMS(8, 0, 0)), nl |-> TRUE],
         [line |-> Line(1, 31, "Wed", "Work", HMS(8, 0, 0), UNDEF_STR), nl |-> FALSE] >>,
      Terminated(<< Line(1, 31, "Wed", "Work", HMS(4, 0, 0), HMS(8, 0, 0)),
                    Line(1, 29, "Mon", "Work", HMS(8, 0, 0), HMS(12, 0, 0)),
                    Line(1, 31, "Wed", "Sickness", UNDEF_STR, HMS(4, 0, 0)) >>) }

AtDates == LogDates \cup {DateList[6], DateList[7]}

InitDisk ==
    /\ \E file \in DiskFiles :
          /\ from_file(file).kind = "ok"
          /\ date2logday = from_file(file).map
          /\ disk = NewDisk(file)
    /\ last = NoOp
    /\ nops = 0

TimeLoggedAtDate ==
    /\ nops < MaxLedgerOps
    /\ last.outcome # "panic"
    /\ \E date \in AtDates, with \in {UNDEF} \cup WithTimes :
          LET res == time_logged_at_date_with(date2logday, date, with)
          IN last' = [op |-> "time_logged_at_date_with", date |-> date,
                      time |-> [secs |-> with, nano |-> 0],
                      vacant |-> date \notin DOMAIN date2logday,
                      outcome |-> res.kind, ret |-> NoEntry, val |-> res.val]
    /\ nops' = nops + 1
    /\ UNCHANGED <<date2logday, disk>>

Save ==
    /\ last.outcome # "panic"
    /\ \E write_fails \in BOOLEAN : save(write_fails)

NextDisk == LedgerLogStart \/ LedgerLogEnd \/ BatchAdd \/ TimeLoggedAtDate \/ Save

SpecDisk == InitDisk /\ [][NextDisk]_vars

(* ------------------ specification: read-only queries ------------------- *)
\* get_latest_n_entries that leaves out days.reverse()
get_latest_n_entries_newest_first(map, n) ==
    LET keys == sorted_dates(DOMAIN map)
        rev == [i \in 1..Len(keys) |-> keys[Len(keys) + 1 - i]]
    IN [i \in 1..(IF n < Len(rev) THEN n ELSE Len(rev)) |->
           [date |-> rev[i], entries |-> map[rev[i]]]]

\* get_latest_n_entries: the Days pushed newest first, then reversed
get_latest_n_entries(map, n) ==
    LET keys == sorted_dates(DOMAIN map)
        rev == [i \in 1..Len(keys) |-> keys[Len(keys) + 1 - i]]
        days == [i \in 1..(IF n < Len(rev) THEN n ELSE Len(rev)) |->
                    [date |-> rev[i], entries |-> map[rev[i]]]]
    IN [i \in 1..Len(days) |-> days[Len(days) + 1 - i]]

\* reference dates of the period queries: the turn of January and the end
\* of February 2024
PeriodDates == QueryDates \cup {58, 59, 60}

\* a call that reads the ledger: its arguments and outcome go to `last`
Query(op, date, with, n, outcome) ==
    /\ last.outcome # "panic"
    /\ last' = [op |-> op, date |-> date, time |-> [secs |-> with, nano |-> 0],
                vacant |-> date \notin DOMAIN date2logday, outcome |-> outcome,
                ret |-> NoEntry, val |-> n]
    /\ nops' = nops + 1
    /\ UNCHANGED <<date2logday, disk>>

WeekOf ==
    /\ nops < MaxLedgerOps
    /\ \E date \in PeriodDates : Query("week_of", date, UNDEF, 0, "ok")

MonthOf ==
    /\ nops < MaxLedgerOps
    /\ \E date \in PeriodDates : Query("month_of", date, UNDEF, 0, "ok")

GetLatestNEntries ==
    /\ nops < MaxLedgerOps
    /\ \E n \in 0..MaxN : Query("get_latest_n_entries", 0, UNDEF, n, "ok")

TimeLoggedInWeekOfWith ==
    /\ nops < MaxLedgerOps
    /\ \E date \in QueryDates, with \in WithTimes :
        Query("time_logged_in_week_of_with", date, with, 0,
              time_logged_in_week_of_with(date2logday, date, with).kind)

TimeLoggedInMonthOfWith ==
    /\ nops < MaxLedgerOps
    /\ \E date \in QueryDates, with \in WithTimes :
        Query("time_logged_in_month_of_with", date, with, 0,
              time_logged_in_month_of_with(date2logday, date, with).kind)

\* one more file: a ledger begun in the week before the reference weeks
QueryFiles ==
    DiskFiles \cup
    { Terminated(<< Line(1, 23, "Tue", "Work", HMS(4, 0, 0), HMS(8, 0, 0)),
                    Line(1, 31, "Wed", "Work", HMS(4, 0, 0), UNDEF_STR) >>) }

InitQuery ==
    /\ \E file \in QueryFiles :
          /\ from_file(file).kind = "ok"
          /\ date2logday = from_file(file).map
          /\ disk = NewDisk(file)
    /\ last = NoOp
    /\ nops = 0

NextQuery ==
    \/ LedgerLogStart \/ LedgerLogEnd \/ BatchAdd
    \/ WeekOf \/ MonthOf \/ GetLatestNEntries
    \/ TimeLoggedInWeekOfWith \/ TimeLoggedInMonthOfWith

SpecQuery == InitQuery /\ [][NextQuery]_vars

(* ------------------------- claims C1 .. C3 ----------------------------- *)
Range(s) == {s[i] : i \in 1..Len(s)}

Count(e, s) == Cardinality({i \in 1..Len(s) : s[i] = e})

SameEntries(s1, s2) ==
    /\ Len(s1) = Len(s2)
    /\ \A e \in Range(s1) \cup Range(s2) : Count(e, s1) = Count(e, s2)

WorkEntry(date, start, end) ==
    [start |-> start, end |-> end, entry_type |-> Work, date |-> date]

\* what log_start must have done to the day `pre` to give the day `post`
FilledStart(pre, post, date, t) ==
    LET S == {i \in 1..Len(pre) : pre[i].entry_type = Work /\ pre[i].start = UNDEF}
    IN IF S # {}
       THEN \E i \in S : /\ \A j \in S : i <= j
                         /\ SameEntries(post, [pre EXCEPT ![i] =
                                WorkEntry(date, t, pre[i].end)])
       ELSE SameEntries(post, Append(pre, WorkEntry(date, t, UNDEF)))

FilledEnd(pre, post, date, t) ==
    LET S == {i \in 1..Len(pre) : pre[i].entry_type = Work /\ pre[i].end = UNDEF}
    IN IF S # {}
       THEN \E i \in S : /\ \A j \in S : i <= j
                         /\ SameEntries(post, [pre EXCEPT ![i] =
                                WorkEntry(date, pre[i].start, t)])
       ELSE SameEntries(post, Append(pre, WorkEntry(date, UNDEF, t)))

C1Step ==
    LET d == last'.date
        pre == entries_of(date2logday, d)
        post == date2logday'[d]
    IN /\ last'.op = "log_start" => FilledStart(pre, post, d, last'.time.secs)
       /\ last'.op = "log_end" => FilledEnd(pre, post, d, last'.time.secs)
       /\ (/\ last.op = "log_start" /\ last.vacant
           /\ last'.op = "log_end" /\ last'.date = last.date)
          => post = <<WorkEntry(d, last.time.secs, last'.time.secs)>>

\* C1: log_start fills the start of the first Work entry of the date's Day
\* whose start is unset and appends a new Work entry (start set, end unset)
\* only when there is none; log_end does the same for the end; hence
\* log_start(d, t1) then log_end(d, t2) on a ledger without a Day for d
\* leaves one Day for d with the single entry Work t1 t2.
C1_LogFillsFirstOpenEntry == [][C1Step]_vars

C1_Witness ==
    /\ nops = 2
    /\ last.op = "log_end"
    /\ last.date \in DOMAIN date2logday
    /\ Len(date2logday[last.date]) = 1
    /\ date2logday[last.date][1].start # UNDEF
    /\ date2logday[last.date][1].end = last.time.secs

Sorted(entries) ==
    \A i \in 1..(Len(entries) - 1) : cmp(entries[i], entries[i + 1]) # "Greater"

Complete(e) == e.start # UNDEF /\ e.end # UNDEF

Overlap(a, b) == a.start < b.end /\ b.start < a.end

NoWorkOverlap(entries) ==
    \A i, j \in 1..Len(entries) :
        (/\ i < j
         /\ entries[i].entry_type = Work /\ entries[j].entry_type = Work
         /\ Complete(entries[i]) /\ Complete(entries[j]))
        => ~Overlap(entries[i], entries[j])

\* C2: after any sequence of log_start/log_end calls from an empty ledger
\* every Day is sorted under the Entry comparator and no two complete Work
\* entries of a Day overlap.
C2_SortedNoOverlap ==
    \A d \in DOMAIN date2logday :
        Sorted(date2logday[d]) /\ NoWorkOverlap(date2logday[d])

\* C3: after any sequence of log_start/log_end calls from an empty ledger
\* every entry with both start and end set has start < end.
C3_StartBeforeEnd ==
    \A d \in DOMAIN date2logday :
        \A e \in Range(date2logday[d]) : Complete(e) => e.start < e.end

(* ------------------------- claims C4 .. C10 ---------------------------- *)
RECURSIVE SumFn(_, _)
SumFn(f, S) ==
    IF S = {} THEN 0
    ELSE LET x == CHOOSE y \in S : TRUE IN f[x] + SumFn(f, S \ {x})

\* end - start over the entries of one type that have both bounds
DayLogged(entries, ty) ==
    LET I == {i \in 1..Len(entries) :
                 entries[i].entry_type = ty /\ Complete(entries[i])}
    IN SumFn([i \in I |-> entries[i].end - entries[i].start], I)

\* logged time of one type over the recorded dates of [d1, d2]
RangeLogged(map, d1, d2, ty) ==
    LET D == {d \in DOMAIN map : d1 <= d /\ d <= d2}
    IN SumFn([d \in D |-> DayLogged(map[d], ty)], D)

RangeLoggedAll(map, d1, d2) ==
    SumFn([ty \in EntryTypes |-> RangeLogged(map, d1, d2, ty)], EntryTypes)

\* 8 hours for every Monday-Friday date of [d1, d2]
RangeLoggable(d1, d2) == Hours(8) * Cardinality({d \in d1..d2 : d % 7 < 5})

Earliest(map) == CHOOSE k \in DOMAIN map : \A j \in DOMAIN map : k <= j

MondayOf(date) == date - (date % 7)

PrevWeekSunday(date) == MondayOf(date) - 1

QueryWiths == {UNDEF} \cup WithTimes

\* C4: flextime_as_of(date) is zero for an empty ledger and when the Sunday
\* before date's week is on or before the earliest ledger date; otherwise it
\* is compute_loggable_time_between(earliest, sunday, Work) minus the sum
\* over all entry types of compute_logged_time_between(earliest, sunday, type).
C4_FlexTime ==
    \A date \in QueryDates :
        flextime_as_of(date2logday, date) =
            IF DOMAIN date2logday = {} THEN 0
            ELSE IF PrevWeekSunday(date) <= Earliest(date2logday) THEN 0
            ELSE compute_loggable_time_between(date2logday, Earliest(date2logday),
                                               PrevWeekSunday(date), Work)
                 - SumFn([ty \in EntryTypes |->
                             compute_logged_time_between(date2logday,
                                 Earliest(date2logday), PrevWeekSunday(date), ty)],
                         EntryTypes)

C4_Witness ==
    /\ DOMAIN date2logday # {}
    /\ \E d1, d2 \in QueryDates :
          /\ PrevWeekSunday(d1) > Earliest(date2logday)
          /\ flextime_as_of(date2logday, d1) # 0
          /\ weekday(d2) = Sun
          /\ MondayOf(d2) = MondayOf(Earliest(date2logday))
          /\ flextime_as_of(date2logday, d2) = 0

\* C5 as stated: flex time is positive when the time logged before date's
\* week exceeds the loggable time of that range and negative when it falls
\* short of it.
C5_FlexSignAsStated ==
    \A date \in QueryDates :
        (DOMAIN date2logday # {} /\ PrevWeekSunday(date) > Earliest(date2logday)) =>
            LET logged == RangeLoggedAll(date2logday, Earliest(date2logday),
                                         PrevWeekSunday(date))
                loggable == RangeLoggable(Earliest(date2logday), PrevWeekSunday(date))
            IN /\ logged > loggable => flextime_as_of(date2logday, date) > 0
               /\ logged < loggable => flextime_as_of(date2logday, date) < 0

\* C5 (amended): when the Sunday before date's week is after the earliest
\* ledger date, flex time is positive when the time logged over [earliest,
\* that Sunday] falls short of the loggable time of the range (deficit) and
\* negative when it exceeds it (surplus).
C5_FlexSign ==
    \A date \in QueryDates :
        (DOMAIN date2logday # {} /\ PrevWeekSunday(date) > Earliest(date2logday)) =>
            LET logged == RangeLoggedAll(date2logday, Earliest(date2logday),
                                         PrevWeekSunday(date))
                loggable == RangeLoggable(Earliest(date2logday), PrevWeekSunday(date))
            IN /\ logged > loggable => flextime_as_of(date2logday, date) < 0
               /\ logged < loggable => flextime_as_of(date2logday, date) > 0

C5_Witness ==
    /\ DOMAIN date2logday # {}
    /\ \E date \in QueryDates :
          /\ PrevWeekSunday(date) > Earliest(date2logday)
          /\ RangeLoggedAll(date2logday, Earliest(date2logday), PrevWeekSunday(date))
                > RangeLoggable(Earliest(date2logday), PrevWeekSunday(date))
          /\ flextime_as_of(date2logday, date) < 0

\* C6: whenever time_logged_in_week_of_with(date, with) succeeds with L,
\* time_left_in_week_of_with(date, with) is (40h - L + F, F) with F the flex
\* time as of date's week; when the logged-time query fails with an error,
\* time_left fails with that error.
C6_TimeLeftInWeek ==
    \A date \in QueryDates, with \in QueryWiths :
        LET logged == time_logged_in_week_of_with(date2logday, date, with)
            left == time_left_in_week_of_with(date2logday, date, with)
            F == flextime_as_of(date2logday, MondayOf(date))
        IN /\ logged.kind = "ok" =>
                 left = [kind |-> "ok", val |-> Hours(40) - logged.val + F, flex |-> F]
           /\ logged.kind = "err" => left.kind = "err"

C6_Witness ==
    \E date \in QueryDates, with \in WithTimes :
        LET logged == time_logged_in_week_of_with(date2logday, date, with)
        IN /\ logged.kind = "ok"
           /\ logged.val > 0
           /\ flextime_as_of(date2logday, date) # 0
           /\ time_left_in_week_of_with(date2logday, date, with).kind = "ok"

\* C7: time_left_in_month_of_with(date, with) returns (loggable(month) -
\* logged_in_month_with + F, F) where F is the flex time as of the first day
\* of date's month, for every date of the month.
C7_TimeLeftInMonthFlexAtMonthStart ==
    \A date \in QueryDates, with \in QueryWiths :
        LET logged == time_logged_in_month_of_with(date2logday, date, with)
            left == time_left_in_month_of_with(date2logday, date, with)
            first == get_first_day_in_month_of(date)
            F == flextime_as_of(date2logday, first)
            loggable == RangeLoggable(first, get_last_day_in_month_of(date))
        IN logged.kind = "ok" =>
              left = [kind |-> "ok", val |-> loggable - logged.val + F, flex |-> F]

\* the day the claim corrects: the latest recorded date of the period
LatestRecorded(map, first, lastday) ==
    LET D == {d \in DOMAIN map : first <= d /\ d <= lastday}
    IN CHOOSE k \in D : \A j \in D : j <= k

PeriodLoggedWithAsStated(map, first, lastday, with, res) ==
    LET total == RangeLoggedAll(map, first, lastday)
        D == {d \in DOMAIN map : first <= d /\ d <= lastday}
    IN /\ with = UNDEF => res = Ok(total)
       /\ (with # UNDEF /\ D # {}) =>
             LET day == map[LatestRecorded(map, first, lastday)]
                 w == time_logged_with(day, with, Work)
             IN w.kind = "ok" => res = Ok(total - logged_time(day, Work) + w.val)

\* C8: time_logged_in_week_of_with / time_logged_in_month_of_with return the
\* sum over all entry types of the logged time of the period and, with
\* with = Some(t), replace logged_time(Work) by time_logged_with(t, Work) for
\* the latest date of the period that has a Day record.
C8_LoggedWithCorrectsLatestDay ==
    \A date \in QueryDates, with \in QueryWiths :
        /\ PeriodLoggedWithAsStated(date2logday, MondayOf(date), MondayOf(date) + 6, with,
               time_logged_in_week_of_with(date2logday, date, with))
        /\ PeriodLoggedWithAsStated(date2logday, get_first_day_in_month_of(date),
               get_last_day_in_month_of(date), with,
               time_logged_in_month_of_with(date2logday, date, with))

QueryTypes == {Work, Sickness}

\* ranges [d1, d2], and the inverted ranges with d2 the day before d1
QueryRanges == {r \in QueryDates \X QueryDates : r[2] >= r[1] - 1}

C10_LoggableTimeBetween ==
    \A r \in QueryRanges, ty \in QueryTypes :
        LET d1 == r[1]
            d2 == r[2]
            loggable == compute_loggable_time_between(date2logday, d1, d2, ty)
        IN /\ loggable = RangeLoggable(d1, d2)
           /\ d1 > d2 => loggable = 0
           /\ (weekday(d1) = Sat /\ d2 = d1 + 1) => loggable = 0
           /\ (d1 = d2 /\ weekday(d1) \notin {Sat, Sun}) => loggable = Hours(8)

C10_Witness ==
    \E d1, d2 \in QueryDates :
        /\ is_weekday(d1) /\ d1 \in DOMAIN date2logday
        /\ is_weekday(d2) /\ d2 \notin DOMAIN date2logday
        /\ compute_loggable_time_between(date2logday, d1, d1, Work) = Hours(8)
        /\ compute_loggable_time_between(date2logday, d2, d2, Work) = Hours(8)

(* ------------------------ claims C11 .. C13 ---------------------------- *)
HasEntryOf(entries, ty) == \E e \in Range(entries) : e.entry_type = ty

\* C11: for every category T other than Work, the logged time for T of a
\* Day holding at least one entry of type T is a full 8 hours, whatever the
\* entry's start and end are; a full-day entry made by batch_add counts as
\* 8 hours.
C11_AbsenceCountsEightHours ==
    \A d \in DOMAIN date2logday, ty \in EntryTypes \ {Work} :
        HasEntryOf(date2logday[d], ty) =>
            logged_time(date2logday[d], ty) = Hours(8)

\* C12: for a Day in which some entry carries a start,
\* time_logged_with(provisional_end, type) is logged_time(type) plus
\* (provisional_end - start) when exactly one entry of the type has a start
\* and no end, and is logged_time(type) when no entry of the type is open.
OpenEntries(entries, ty) ==
    {i \in 1..Len(entries) : /\ entries[i].entry_type = ty
                             /\ entries[i].start # UNDEF
                             /\ entries[i].end = UNDEF}

C12_TimeLoggedWith ==
    \A d \in DOMAIN date2logday, ty \in EntryTypes, provisional_end \in WithTimes :
        LET entries == date2logday[d]
            open == OpenEntries(entries, ty)
            res == time_logged_with(entries, provisional_end, ty)
        IN (\E e \in Range(entries) : e.start # UNDEF) =>
              /\ Cardinality(open) = 1 =>
                    \A i \in open :
                        res = Ok(DayLogged(entries, ty)
                                 + (provisional_end - entries[i].start))
              /\ open = {} => res = Ok(DayLogged(entries, ty))

C12_Witness ==
    \E d1, d2 \in DOMAIN date2logday :
        /\ Cardinality(OpenEntries(date2logday[d1], Work)) = 1
        /\ DayLogged(date2logday[d1], Work) > 0
        /\ time_logged_with(date2logday[d1], 16 * 3600, Work).val
              > DayLogged(date2logday[d1], Work)
        /\ OpenEntries(date2logday[d2], Sickness) = {}
        /\ DayLogged(date2logday[d2], Sickness) > 0
        /\ time_logged_with(date2logday[d2], 16 * 3600, Sickness).kind = "ok"

\* C13: time_logged_at_date_with(date, with) returns an InvalidInput error,
\* never a duration, when the ledger has no Day for the date, when the Day
\* has no entries, or when none of the Day's entries of any type has a
\* start; the ledger is not modified.
C13Step ==
    (last'.op = "time_logged_at_date_with" /\ last' # last) =>
        /\ date2logday' = date2logday
        /\ (\/ last'.date \notin DOMAIN date2logday
            \/ \A e \in Range(date2logday[last'.date]) : e.start = UNDEF)
              => last'.outcome = "err"

C13_TimeLoggedAtDateErrors ==
    /\ [][C13Step]_vars
    /\ [](\A with \in {UNDEF} \cup WithTimes :
             time_logged_with(<<>>, with, Work) = InvalidInputError)

C13_Witness ==
    /\ last.op = "time_logged_at_date_with"
    /\ last.date \in DOMAIN date2logday
    /\ \A e \in Range(date2logday[last.date]) : e.start = UNDEF
    /\ last.outcome = "err"

(* ------------------------ claims C14 .. C15 ---------------------------- *)
\* the dates batch_add is to fill
Targets(from, to, weekday_only) ==
    {d \in from..(to - 1) : ~weekday_only \/ weekday(d) \notin {Sat, Sun}}

FullDay(d, ty) == <<[start |-> UNDEF, end |-> UNDEF, entry_type |-> ty, date |-> d]>>

IsBatchAdd(ty, from, to, weekday_only) ==
    /\ last'.op = "batch_add"
    /\ nops' = nops + 1
    /\ batch_add(ty, from, to, weekday_only)

\* C14: when from < to and no target date has a Day, batch_add(type, from,
\* to, weekday_only) returns Ok; afterwards every date of [from, to), `to`
\* excluded and Saturdays and Sundays skipped when weekday_only, has a Day
\* of exactly one entry of the type with neither start nor end, and no Day
\* of another date is added, removed or changed.
C14Step ==
    \A ty \in BatchTypes, from \in LogDates, span \in 0..(MaxBatchSpan + 1),
       weekday_only \in BOOLEAN :
        LET to == from + span
            T == Targets(from, to, weekday_only)
        IN (/\ IsBatchAdd(ty, from, to, weekday_only)
            /\ from < to
            /\ T \cap DOMAIN date2logday = {})
           => /\ last'.outcome = "ok"
              /\ DOMAIN date2logday' = DOMAIN date2logday \cup T
              /\ \A d \in T : date2logday'[d] = FullDay(d, ty)
              /\ \A d \in DOMAIN date2logday : date2logday'[d] = date2logday[d]

C14_BatchAddFillsRange == [][C14Step]_vars

C14_Witness ==
    /\ last.op = "batch_add"
    /\ last.outcome = "ok"
    /\ last.vacant
    /\ last.date \in DOMAIN date2logday
    /\ date2logday[last.date] = FullDay(last.date, Sickness)
    /\ last.date + 1 \in DOMAIN date2logday
    /\ date2logday[last.date + 1] = FullDay(last.date + 1, Sickness)
    /\ last.date + 2 \notin DOMAIN date2logday
    /\ \E d \in DOMAIN date2logday : d < last.date

\* C15: if a target date of batch_add already has a Day, batch_add returns
\* an InvalidInput error at the first such date in ascending order: that Day
\* and every later date are left as they were, and the Days inserted for the
\* earlier target dates of the call stay in the ledger.
C15Step ==
    \A ty \in BatchTypes, from \in LogDates, span \in 0..(MaxBatchSpan + 1),
       weekday_only \in BOOLEAN :
        LET to == from + span
            T == Targets(from, to, weekday_only)
            taken == T \cap DOMAIN date2logday
        IN (/\ IsBatchAdd(ty, from, to, weekday_only)
            /\ from < to
            /\ taken # {})
           => LET first == CHOOSE d \in taken : \A e \in taken : d <= e
                  earlier == {d \in T : d < first}
              IN /\ last'.outcome = "err"
                 /\ DOMAIN date2logday' = DOMAIN date2logday \cup earlier
                 /\ \A d \in earlier : date2logday'[d] = FullDay(d, ty)
                 /\ \A d \in DOMAIN date2logday : date2logday'[d] = date2logday[d]

C15_BatchAddStopsAtOccupied == [][C15Step]_vars

C15_Witness ==
    /\ last.op = "batch_add"
    /\ last.outcome = "err"
    /\ last.vacant
    /\ last.date \in DOMAIN date2logday
    /\ date2logday[last.date] = FullDay(last.date, Sickness)
    /\ last.date + 1 \in DOMAIN date2logday
    /\ date2logday[last.date + 1] # FullDay(last.date + 1, Sickness)

(* ------------------------ claims C16 .. C17 ---------------------------- *)
\* C16: save takes its backup of the ledger file before the file is
\* modified: when writing the new contents fails, the file holds after save
\* exactly what it held before the call and save returns an IOError; when
\* the write succeeds the file holds the serialized ledger and the backup
\* is deleted.
C16Step ==
    /\ save(TRUE) => /\ disk'.primary = disk.primary
                     /\ last'.outcome = "io_err"
    /\ save(FALSE) => /\ disk'.primary = write_entries(date2logday)
                      /\ ~disk'.bkp_exists
                      /\ last'.outcome = "ok"

C16_SaveKeepsOldContentsOnFailure == [][C16Step]_vars

\* a Day is unfinished when an entry has exactly one of start and end set or
\* a Work entry misses a bound
Unfinished(entries) ==
    \E e \in Range(entries) :
        \/ (e.start = UNDEF /\ e.end # UNDEF)
        \/ (e.start # UNDEF /\ e.end = UNDEF)
        \/ (e.entry_type = Work /\ ~Complete(e))

\* the unfinished dates of [first, last] in ascending order
UnfinishedDates(map, first, last_day) ==
    sorted_dates({d \in first..last_day :
                     d \in DOMAIN map /\ Unfinished(map[d])})

\* C17: verify_entries_in_week_of(date) and verify_entries_in_month_of(date)
\* return exactly the dates of the period, its first and its last day both
\* included, whose Day has unfinished entries, in ascending order, and None
\* (the empty list here) when no date of the period has one.
C17_VerifyEntriesWholePeriod ==
    \A date \in LogDates :
        /\ verify_entries_in_week_of(date2logday, date) =
              UnfinishedDates(date2logday, MondayOf(date), MondayOf(date) + 6)
        /\ verify_entries_in_month_of(date2logday, date) =
              UnfinishedDates(date2logday, MonthStart[month0(date) + 1],
                              MonthStart[month0(date) + 2] - 1)

LineDate(line) == line.y * 10000 + line.m * 100 + line.d

\* every line ends in a newline and the lines are in ascending date order
GroupedAscending(text) ==
    /\ \A i \in 1..Len(text) : text[i].nl
    /\ \A i, j \in 1..Len(text) :
          i < j => LineDate(text[i].line) <= LineDate(text[j].line)

\* C19: for every ledger reached by loading, log_start / log_end and
\* batch_add, reading back what write_entries writes gives a date -> Day
\* map equal to the ledger's; write_entries writes the Days in ascending
\* date order; and for a text of newline-terminated entry lines grouped by
\* date in ascending order, writing what read_entries read gives the text.
C19_LedgerRoundTrip ==
    LET written == write_entries(date2logday)
        text == disk.primary
    IN /\ from_file(written) = [kind |-> "ok", map |-> date2logday]
       /\ \A i, j \in 1..Len(written) :
             i < j => LineDate(written[i].line) <= LineDate(written[j].line)
       /\ (GroupedAscending(text) /\ from_file(text).kind = "ok")
             => write_entries(from_file(text).map) = text

C19_Witness ==
    /\ nops > 0
    /\ Cardinality(DOMAIN date2logday) >= 3
    /\ \E d \in DOMAIN date2logday : Len(date2logday[d]) >= 2
    /\ \E d \in DOMAIN date2logday :
          \E e \in Range(date2logday[d]) : e.start # UNDEF /\ e.start % 60 # 0
    /\ disk.primary # <<>>
    /\ GroupedAscending(disk.primary)
    /\ write_entries(date2logday) # disk.primary
    /\ write_entries(from_file(disk.primary).map) = disk.primary

\* lines and entries beyond those of the ledger at hand: dates that do not
\* exist, weekdays that do not match, unknown types, times out of range
SampleLines ==
    {Line(m, d, a, ty, start, end) :
        m \in {1, 2}, d \in {29, 30}, a \in {"Mon", "Thu"},
        ty \in {"Work", "Holiday", "Leave"},
        start \in {UNDEF_STR, HMS(7, 31, 0)},
        end \in {UNDEF_STR, HMS(12, 0, 59), HMS(24, 0, 0)}}

SampleEntries ==
    {Entry(date, ty, start, end) :
        date \in {DateList[1], DateList[3]}, ty \in {Work, ParentalLeave, Holiday},
        start \in {UNDEF, 7 * 3600 + 31 * 60},
        end \in {UNDEF, 12 * 3600 + 59, 0}}

WellFormedTime(field) ==
    \/ field = UNDEF_STR
    \/ ~field.undef /\ field.h \in 0..23 /\ field.m \in 0..59 /\ field.s \in 0..59

\* a line of the stated form for a date that exists, with the date's weekday
WellFormed(line) ==
    /\ line.y = Year
    /\ line.m \in 1..3
    /\ line.d \in 1..(MonthStart[line.m + 1] - MonthStart[line.m])
    /\ line.a = WeekdayNames[((MonthStart[line.m] + line.d - 1) % 7) + 1]
    /\ \E i \in 1..Len(EntryTypeNames) : EntryTypeNames[i] = line.ty
    /\ WellFormedTime(line.start)
    /\ WellFormedTime(line.end)

LedgerEntries == UNION {Range(date2logday[d]) : d \in DOMAIN date2logday}

C21_WeekOf ==
    last.op = "week_of" =>
        LET d == last.date
            monday == get_monday_in_week_of(d)
            sunday == get_sunday_in_week_of(d)
        IN /\ monday % 7 = Mon
           /\ sunday % 7 = Sun
           /\ sunday = monday + 6
           /\ monday <= d /\ d <= sunday
           /\ compute_loggable_time_in_week_of(date2logday, d, Work) = Hours(40)

C21_Witness ==
    /\ last.op = "week_of"
    /\ last.date % 7 = Sun
    /\ get_monday_in_week_of(last.date) = last.date - 6
    /\ DOMAIN date2logday # {}

\* C22: for every date d, get_first_day_in_month_of(d) is day 1 and
\* get_last_day_in_month_of(d) is day N of d's month, N from the table
\* [31, 28, 31, ...] with no leap-year adjustment: for every date of
\* February, 29 February 2024 included, the last day is 28 February.
TableDays == <<31, 28, 31>>

C22_MonthOf ==
    last.op = "month_of" =>
        LET d == last.date
            m == CHOOSE k \in 1..3 : MonthStart[k] <= d /\ d < MonthStart[k + 1]
        IN /\ get_first_day_in_month_of(d) = MonthStart[m]
           /\ get_last_day_in_month_of(d) = MonthStart[m] + TableDays[m] - 1
           /\ m = 2 => get_last_day_in_month_of(d) = 58

C22_Witness ==
    /\ last.op = "month_of"
    /\ last.date = 59
    /\ get_last_day_in_month_of(last.date) = last.date - 1

\* C23: get_latest_n_entries(n) returns the Days of the min(n, number of
\* dates in the ledger) most recent dates of the ledger, in ascending date
\* order, and does not modify the ledger.
C23Step ==
    (last'.op = "get_latest_n_entries" /\ nops' = nops + 1) =>
        LET n == last'.val
            days == get_latest_n_entries(date2logday, n)
            dates == {days[i].date : i \in 1..Len(days)}
            size == Cardinality(DOMAIN date2logday)
        IN /\ date2logday' = date2logday
           /\ Len(days) = IF n < size THEN n ELSE size
           /\ Cardinality(dates) = Len(days)
           /\ dates \subseteq DOMAIN date2logday
           /\ \A d \in dates, e \in DOMAIN date2logday \ dates : e < d
           /\ \A i, j \in 1..Len(days) : i < j => days[i].date < days[j].date
           /\ \A i \in 1..Len(days) : days[i].entries = date2logday[days[i].date]

C23_LatestNEntries == [][C23Step]_vars

C23_Witness ==
    /\ last.op = "get_latest_n_entries"
    /\ last.val = 2
    /\ Cardinality(DOMAIN date2logday) > 2
    /\ Len(get_latest_n_entries(date2logday, last.val)) = 2

\* C24: time_logged_in_week_of_with and time_logged_in_month_of_with called
\* with `with` = Some(t) return Ok or a typed error and never panic, for
\* every ledger and date; when the first day of the period has no Day or
\* the ledger is empty the failure is an InvalidInput error value.
C24_PeriodQueryNeverPanics ==
    last.op \in {"time_logged_in_week_of_with", "time_logged_in_month_of_with"} =>
        /\ last.outcome \in {"ok", "err"}
        /\ DOMAIN date2logday = {} => last.outcome = "err"

\* C25: batch_add(type, from, to, weekday_only) called with from >= to
\* returns a typed result, Ok with nothing inserted or an error value, and
\* does not panic; the ledger is left unchanged.
C25Step ==
    \A ty \in BatchTypes, from \in LogDates, weekday_only \in BOOLEAN :
        IsBatchAdd(ty, from, from, weekday_only) =>
            /\ last'.outcome \in {"ok", "err"}
            /\ date2logday' = date2logday

C25_BatchAddEmptyRangeNoPanic == [][C25Step]_vars

(* ------------------------ claims C26 .. C28 ---------------------------- *)
\* C26: after any sequence of log_start / log_end calls on a Day that
\* starts with no entries, the assertions of validate_ordering hold: for
\* entries at indices i < j, start_i < start_j when both starts are set,
\* end_i < end_j when both ends are set, and end_i <= start_j when end_i
\* and start_j are set.
C26_ValidateOrderingHolds ==
    \A d \in DOMAIN date2logday : validate_ordering(date2logday[d])

\* the comparison the four rules give
RuleCmp(a, b) ==
    IF a.end # UNDEF /\ a.end = b.start THEN "Less"
    ELSE IF a.start # UNDEF /\ b.start # UNDEF THEN ord(a.start, b.start)
    ELSE IF a.end # UNDEF /\ b.end # UNDEF THEN ord(a.end, b.end)
    ELSE ord(a.entry_type, b.entry_type)

\* C27: cmp(a, b) follows four rules in order: (a) if a's end is set and
\* equals b's start, a sorts before b; (b) otherwise, if both starts are
\* set, the comparison of the starts; (c) otherwise, if both ends are set,
\* the comparison of the ends; (d) otherwise the comparison of the types.
C27_CmpFollowsRules ==
    \A a, b \in LedgerEntries : cmp(a, b) = RuleCmp(a, b)

Reverse(o) == IF o = "Less" THEN "Greater" ELSE IF o = "Greater" THEN "Less" ELSE "Equal"

\* C28: cmp is a consistent total order on the entries that occur in a
\* Day: cmp(a, a) is Equal, cmp(a, b) is the reverse of cmp(b, a), and cmp
\* is transitive.
C28_CmpTotalOrder ==
    \A d \in DOMAIN date2logday :
        LET E == Range(date2logday[d])
        IN /\ \A a \in E : cmp(a, a) = "Equal"
           /\ \A a, b \in E : cmp(a, b) = Reverse(cmp(b, a))
           /\ \A a, b, c \in E :
                 (cmp(a, b) = "Less" /\ cmp(b, c) = "Less") => cmp(a, c) = "Less"

(* ------------------------ claims C29 .. C30 ---------------------------- *)
\* e2 is e1 with nothing changed but unset bounds filled
KeepsBounds(e1, e2) ==
    /\ e2.entry_type = e1.entry_type
    /\ e2.date = e1.date
    /\ e1.start # UNDEF => e2.start = e1.start
    /\ e1.end # UNDEF => e2.end = e1.end

\* C29: a log_start or log_end call on date d changes nothing but one Work
\* entry of d's Day: the Days of all other dates are unchanged, the entries
\* of d with another type are unchanged, no start or end that was set is
\* changed or cleared, and the number of entries of d grows by at most one.
C29Step ==
    (last'.op \in {"log_start", "log_end"} /\ nops' = nops + 1) =>
        LET d == last'.date
            pre == entries_of(date2logday, d)
            post == date2logday'[d]
            others == {e \in Range(pre) \cup Range(post) : e.entry_type # Work}
        IN /\ DOMAIN date2logday' = DOMAIN date2logday \cup {d}
           /\ \A e \in DOMAIN date2logday \ {d} : date2logday'[e] = date2logday[e]
           /\ \A e \in others : Count(e, post) = Count(e, pre)
           /\ Len(pre) <= Len(post) /\ Len(post) <= Len(pre) + 1
           /\ \E e2 \in Range(post) :
                 /\ e2.entry_type = Work /\ e2.date = d
                 /\ \/ SameEntries(post, Append(pre, e2))
                    \/ \E i \in 1..Len(pre) :
                          /\ KeepsBounds(pre[i], e2)
                          /\ SameEntries(post, [pre EXCEPT ![i] = e2])

C29_LogFrame == [][C29Step]_vars

C29_Witness ==
    /\ last.op = "log_start"
    /\ ~last.vacant
    /\ last.date \in DOMAIN date2logday
    /\ \E e \in Range(date2logday[last.date]) : e.entry_type # Work /\ e.start = UNDEF
    /\ last.ret \in Range(date2logday[last.date])
    /\ Cardinality(DOMAIN date2logday) > 1

\* C30: flex time depends only on records before the reference week: for
\* every ledger and reference date r, flextime_as_of has the same value for
\* all dates of r's Monday-Sunday week, and it is unchanged by a log_start,
\* log_end or batch_add applied to dates on or after the Monday of r's week.
C30SameInWeek ==
    \A r \in QueryDates :
        flextime_as_of(date2logday, r) = flextime_as_of(date2logday, MondayOf(r))

C30Step ==
    (last'.op \in {"log_start", "log_end", "batch_add"} /\ nops' = nops + 1) =>
        \A r \in QueryDates :
            last'.date >= MondayOf(r) =>
                flextime_as_of(date2logday', r) = flextime_as_of(date2logday, r)

C30_FlexFrame == [](C30SameInWeek) /\ [][C30Step]_vars

C30_Witness ==
    /\ last.op \in {"log_start", "log_end", "batch_add"}
    /\ last.outcome = "ok"
    /\ last.date \in DOMAIN date2logday
    /\ \E r \in QueryDates :
          /\ last.date >= MondayOf(r)
          /\ flextime_as_of(date2logday, r) # 0
          /\ flextime_as_of(date2logday, r + 1) = flextime_as_of(date2logday, r)
          /\ MondayOf(r + 1) = MondayOf(r)

====
